---- MODULE Spec2Model ----
(***************************************************************************)
(* Model of the pdf-micro-service (Express + Playwright).                  *)
(*                                                                         *)
(* Three revisions of the request handler exist in the sources:            *)
(*   "pdf"  : POST /pdf  of src/server.js          (lines 69-200)          *)
(*   "pdf2" : POST /pdf  of src/unnamed/part_000   (lines 80-200)          *)
(*   "grab" : POST /grab of src/server.js          (lines 287-352)         *)
(* A process runs one revision (variable revision, fixed by Init).         *)
(*                                                                         *)
(* JavaScript runs handlers on one thread: the code between two awaits is  *)
(* atomic.  Each action below is one such segment: the settlement of the   *)
(* awaited call, then the synchronous code up to the next awaited call.    *)
(* Strings are sequences of one-character strings, so that startsWith,     *)
(* trim and the regular expressions are computed, not assumed.             *)
(***************************************************************************)
EXTENDS Naturals, Sequences, FiniteSets

(* ------------------------------ bounds -------------------------------- *)
\* number of client connections; each sends one request
MaxRequests == 2

(* --------------------------- JavaScript values ------------------------ *)
\* A value is its type t, its characters v when it is a string, and its items
\* when it is an array (the elements) or an object (its selector and value
\* fields, Undefined when absent).
Undefined == [t |-> "undef", v |-> <<>>, items |-> <<>>]
Null == [t |-> "null", v |-> <<>>, items |-> <<>>]
Str(s) == [t |-> "str", v |-> s, items |-> <<>>]
Arr(xs) == [t |-> "arr", v |-> <<>>, items |-> xs]
Obj(sel, val) == [t |-> "obj", v |-> <<>>, items |-> <<sel, val>>]

\* JS truthiness of undefined / null / a string / an array / an object
Truthy(val) == val.t \in {"arr", "obj"} \/ (val.t = "str" /\ val.v # <<>>)

Whitespace == {" "}

RECURSIVE TrimStart(_)
TrimStart(s) ==
  IF s = <<>> THEN <<>>
  ELSE IF Head(s) \in Whitespace THEN TrimStart(Tail(s)) ELSE s

RECURSIVE TrimEnd(_)
TrimEnd(s) ==
  IF s = <<>> THEN <<>>
  ELSE IF s[Len(s)] \in Whitespace THEN TrimEnd(SubSeq(s, 1, Len(s) - 1)) ELSE s

\* String.prototype.trim
Trim(s) == TrimEnd(TrimStart(s))

\* String.prototype.startsWith
StartsWith(s, prefix) ==
  Len(prefix) <= Len(s) /\ SubSeq(s, 1, Len(prefix)) = prefix

\* s contains sub as a substring (an unanchored regular expression of literals)
Contains(s, sub) ==
  \E i \in 1..(Len(s) + 1) :
    i + Len(sub) - 1 <= Len(s) /\ SubSeq(s, i, i + Len(sub) - 1) = sub

(* ------------------------------- URLs --------------------------------- *)
Letters ==
  {"a", "b", "c", "d", "e", "f", "g", "h", "i", "j", "k", "l", "m",
   "n", "o", "p", "q", "r", "s", "t", "u", "v", "w", "x", "y", "z"}
Digits == {"0", "1", "2", "3", "4", "5", "6", "7", "8", "9"}
SchemeChars == Letters \cup Digits \cup {"+", "-", "."}

\* position of the first ":" of s, 0 when there is none
RECURSIVE ColonAt(_, _)
ColonAt(s, i) ==
  IF i > Len(s) THEN 0 ELSE IF s[i] = ":" THEN i ELSE ColonAt(s, i + 1)

RECURSIVE SkipSlashes(_)
SkipSlashes(s) ==
  IF s # <<>> /\ Head(s) = "/" THEN SkipSlashes(Tail(s)) ELSE s

HTTP == <<"h", "t", "t", "p">>
HTTPS == <<"h", "t", "t", "p", "s">>

\* new URL(url) does not throw: a scheme, and for http(s) a non-empty host
ParsesAsUrl(s) ==
  LET c == ColonAt(s, 1) IN
    /\ c > 1
    /\ s[1] \in Letters
    /\ \A j \in 1..(c - 1) : s[j] \in SchemeChars
    /\ LET scheme == SubSeq(s, 1, c - 1)
           rest == SkipSlashes(SubSeq(s, c + 1, Len(s)))
       IN scheme \in {HTTP, HTTPS} =>
            /\ rest # <<>>
            /\ Head(rest) \notin {"?", "#", ":", " "}

\* the URLs requests carry
URL_A_CV == <<"h","t","t","p",":","/","/","a",".","c","o","/","c","v">>
URL_A_NGROK ==
  <<"h","t","t","p",":","/","/","a",".","c","o","/","n","g","r","o","k","-","i","o">>
URL_B == <<"h","t","t","p",":","/","/","b",".","c","o","/">>
URL_MALFORMED == <<"a",".","c","o","/","c","v">>
\* URLs that extend the allowlist entry as a string, or differ from it in
\* port or scheme
URL_A_EVIL == <<"h","t","t","p",":","/","/","a",".","c","o",".","e","v","i","l","/">>
URL_A_PORT == <<"h","t","t","p",":","/","/","a",".","c","o",":","8","1","/","c","v">>
URL_A_HTTPS == <<"h","t","t","p","s",":","/","/","a",".","c","o","/","c","v">>
Urls == {Undefined, Str(<<>>), Str(URL_MALFORMED), Str(URL_B), Str(URL_A_CV),
         Str(URL_A_NGROK)}

\* the operator's allowlist entry
ALLOW_A == <<"h","t","t","p",":","/","/","a",".","c","o">>
Allowlists == {{}, {ALLOW_A}}

NGROK_FREE_APP == <<"n","g","r","o","k","-","f","r","e","e",".","a","p","p">>
NGROK_IO == <<"n","g","r","o","k","-","i","o">>
\* /ngrok-(free\.app|io)/.test(url)
IsNgrok(s) == Contains(s, NGROK_FREE_APP) \/ Contains(s, NGROK_IO)

(* ----------------------------- selectors ------------------------------ *)
RESUME_ROOT == <<"#","r","e","s","u","m","e","-","r","o","o","t">>
SEL_CV == <<"#","c","v">>
Selectors == {Undefined, Str(SEL_CV)}

\* the shapes a client can send as waitForSelector
SEL_CV_PADDED == <<" ", "#", "c", "v", " ">>
BLANK == <<" ", " ">>
SelectorShapes ==
  {Undefined, Null, Str(<<>>), Str(BLANK), Str(SEL_CV), Str(SEL_CV_PADDED),
   Arr(<<>>), Arr(<<Str(BLANK)>>), Arr(<<Str(BLANK), Str(SEL_CV_PADDED)>>),
   Arr(<<Null, Str(SEL_CV), Str(RESUME_ROOT)>>),
   Obj(Undefined, Undefined), Obj(Str(SEL_CV_PADDED), Undefined),
   Obj(Str(BLANK), Str(SEL_CV)), Obj(Undefined, Str(SEL_CV_PADDED)),
   Obj(Str(RESUME_ROOT), Str(SEL_CV))}

\* typeof v === "string" && v.trim()
NonBlank(val) == val.t = "str" /\ Trim(val.v) # <<>>

normalizeSelector(val, fallback) ==
  IF NonBlank(val) THEN Str(Trim(val.v))
  ELSE IF val.t = "arr" /\ \E i \in DOMAIN val.items : NonBlank(val.items[i])
  THEN \* val.find(...): the first element that is a non-blank string
       Str(Trim(val.items[CHOOSE i \in DOMAIN val.items :
                            /\ NonBlank(val.items[i])
                            /\ \A j \in 1..(i - 1) : ~NonBlank(val.items[j])].v))
  ELSE IF val.t = "obj" /\ NonBlank(val.items[1]) THEN Str(Trim(val.items[1].v))
  ELSE IF val.t = "obj" /\ NonBlank(val.items[2]) THEN Str(Trim(val.items[2].v))
  ELSE fallback

(* ------------------------------ file names ---------------------------- *)
LowerCase ==
  <<"a", "b", "c", "d", "e", "f", "g", "h", "i", "j", "k", "l", "m",
    "n", "o", "p", "q", "r", "s", "t", "u", "v", "w", "x", "y", "z">>
UpperCase ==
  <<"A", "B", "C", "D", "E", "F", "G", "H", "I", "J", "K", "L", "M",
    "N", "O", "P", "Q", "R", "S", "T", "U", "V", "W", "X", "Y", "Z">>
Capitals == {UpperCase[i] : i \in DOMAIN UpperCase}

\* String.prototype.toLowerCase
ToLowerChar(c) ==
  IF c \in Capitals THEN LowerCase[CHOOSE i \in DOMAIN UpperCase : UpperCase[i] = c]
  ELSE c
ToLowerCase(s) == [i \in DOMAIN s |-> ToLowerChar(s[i])]

\* String.prototype.endsWith
EndsWith(s, suffix) ==
  /\ Len(suffix) <= Len(s)
  /\ SubSeq(s, Len(s) - Len(suffix) + 1, Len(s)) = suffix

\* the characters /[^a-z0-9._-]/i lets stand
NameChars == Letters \cup Capitals \cup Digits \cup {".", "_", "-"}

\* replace(/[^a-z0-9._-]+/gi, "_"): every maximal run of other characters
\* becomes one "_" (the first character of a run is replaced, the others of
\* the run are dropped)
ReplaceRuns(s) ==
  LET marked == [i \in DOMAIN s |->
                   IF s[i] \in NameChars THEN s[i]
                   ELSE IF i > 1 /\ s[i - 1] \notin NameChars THEN ""
                   ELSE "_"]
  IN SelectSeq(SubSeq(marked, 1, Len(s)), LAMBDA c : c # "")

DOT_PDF == <<".", "p", "d", "f">>
RESUME_PDF == <<"r", "e", "s", "u", "m", "e", ".", "p", "d", "f">>
NAME_MAX == 128

\* String.prototype.slice(0, n)
Slice(s, n) == SubSeq(s, 1, IF Len(s) < n THEN Len(s) ELSE n)

sanitizeFileName(name) ==
  LET n == ReplaceRuns(name)
      m == IF EndsWith(ToLowerCase(n), DOT_PDF) THEN n ELSE n \o DOT_PDF
  IN Slice(m, NAME_MAX)

\* the file names requests carry: runs of one letter up to MaxNameLen, with and
\* without the extension, and names with characters of every kind
MaxNameLen == 130
Repeat(c, n) == SubSeq([i \in 1..n |-> c], 1, n)
NAME_SPACED == <<"m", "y", " ", "/", "c", "v", ".", "P", "D", "F">>
NAME_DOTS == <<".", ".", "/", "e", "t", "c">>
FileNames ==
  {Repeat("a", n) : n \in 0..MaxNameLen}
    \cup {Repeat("a", n) \o DOT_PDF : n \in 1..MaxNameLen}
    \cup {NAME_SPACED, NAME_DOTS}

(* ------------------------------ documents ----------------------------- *)
\* A document is known by the elements it ends up with: those attached, and
\* among them those whose rendered height exceeds 200px.
NoHtml == "undefined"
DOC_H1 == "<html><head></head><body><h1>OK</h1></body></html>"
DOC_ROOT == "<div id=resume-root>...</div>"
DOC_CV == "<div id=cv>...</div>"
Docs == {DOC_H1, DOC_ROOT, DOC_CV}
NoDoc == "none"

Attached(doc) ==
  CASE doc = DOC_ROOT -> {RESUME_ROOT}
    [] doc = DOC_CV -> {SEL_CV}
    [] OTHER -> {}

(* ------------------------------ requests ------------------------------ *)
SECRET == <<"k">>
Keys == {Undefined, Str(<<>>), Str(<<"x">>), Str(SECRET)}
Secrets == {<<>>, SECRET}

NoHeaders == {}
HeaderSets == {NoHeaders, {"x-test"}}
Debugs == {"undefined", "screenshot", "html"}

Revisions == {"pdf", "pdf2", "grab"}
IsPdf(rev) == rev \in {"pdf", "pdf2"}

\* the request bodies a client of revision rev can send (fields the handler
\* does not read are left undefined)
Inputs(rev) ==
  IF IsPdf(rev)
  THEN [key : Keys, url : Urls, html : {NoHtml} \cup Docs,
        waitForSelector : Selectors, debug : Debugs, mode : {"undefined"},
        extraHeaders : HeaderSets, fileName : {Undefined}]
  ELSE [key : Keys, url : Urls, html : {NoHtml},
        waitForSelector : Selectors, debug : {"undefined"}, mode : Debugs,
        extraHeaders : HeaderSets, fileName : {Undefined}]

NoInput ==
  [key |-> Undefined, url |-> Undefined, html |-> NoHtml,
   waitForSelector |-> Undefined, debug |-> "undefined", mode |-> "undefined",
   extraHeaders |-> NoHeaders, fileName |-> Undefined]

Requests == 1..MaxRequests

VARIABLES
  PDF_KEY,        \* process.env.PDF_KEY || ""
  URL_ALLOWLIST,  \* the parsed allowlist
  revision,       \* which handler this process serves
  started,        \* the module has been loaded (warm-up done, listening)
  browserPromise, \* 0 = null, k = the promise of the k-th chromium.launch
  launches,       \* launches[k] : "pending" | "fulfilled" | "rejected"
  pagesCreated,   \* pages the browser has created so far
  openPages,      \* ids of the pages created and not closed
  req             \* per client connection: its request

vars ==
  <<PDF_KEY, URL_ALLOWLIST, revision, started, browserPromise, launches,
    pagesCreated, openPages, req>>

config == <<PDF_KEY, URL_ALLOWLIST, revision>>

IdleRequest ==
  [pc |-> "idle", in |-> NoInput, status |-> 0, ctype |-> "none",
   awaited |-> 0, page |-> 0, pagesBefore |-> 0, calls |-> <<>>,
   selector |-> Undefined, doc |-> NoDoc, nav |-> "none", netidle |-> "none",
   filename |-> <<>>]

Init ==
  /\ PDF_KEY \in Secrets
  /\ URL_ALLOWLIST \in Allowlists
  /\ revision \in Revisions
  /\ started = FALSE
  /\ browserPromise = 0
  /\ launches = <<>>
  /\ pagesCreated = 0
  /\ openPages = {}
  /\ req = [r \in Requests |-> IdleRequest]


(* --------------------------- browser singleton ------------------------ *)
\* getBrowser without the memo test: every call launches
getBrowser_noMemo(bp, n) == [browserPromise |-> n + 1, launches |-> n + 1]

\* getBrowser(): launch only when nothing is memoized; bp is browserPromise and
\* n the number of launches so far.  The result is the new memo and count.
getBrowser(bp, n) ==
  IF bp = 0
  THEN [browserPromise |-> n + 1, launches |-> n + 1]
  ELSE [browserPromise |-> bp, launches |-> n]

\* the launches sequence after a getBrowser() call that left n launches
Launched(n) == IF n > Len(launches) THEN Append(launches, "pending") ELSE launches

\* module load: getBrowser().catch(console.error), then app.listen
WarmUp ==
  /\ ~started
  /\ LET g == getBrowser(browserPromise, Len(launches)) IN
       /\ browserPromise' = g.browserPromise
       /\ launches' = Launched(g.launches)
  /\ started' = TRUE
  /\ UNCHANGED <<config, pagesCreated, openPages, req>>

\* a launch whose rejection clears the memo
LaunchSettled_resetOnReject(k, ok) ==
  /\ k \in 1..Len(launches)
  /\ launches[k] = "pending"
  /\ launches' = [launches EXCEPT ![k] = IF ok THEN "fulfilled" ELSE "rejected"]
  /\ browserPromise' = IF ok THEN browserPromise ELSE 0
  /\ UNCHANGED <<config, started, pagesCreated, openPages, req>>

\* chromium.launch settles: the promise is fulfilled with a browser or rejected;
\* nothing touches browserPromise
LaunchSettled(k, ok) ==
  /\ k \in 1..Len(launches)
  /\ launches[k] = "pending"
  /\ launches' = [launches EXCEPT ![k] = IF ok THEN "fulfilled" ELSE "rejected"]
  /\ UNCHANGED <<config, started, browserPromise, pagesCreated, openPages,
                 req>>

(* ------------------------------ the handler --------------------------- *)
\* the auth test without its !PDF_KEY half
Unauthorized_noEmptyCheck(secret, key) == key # Str(secret)

\* if (!PDF_KEY || key !== PDF_KEY)
Unauthorized(secret, key) == secret = <<>> \/ key # Str(secret)

\* every() for some(): an empty allowlist lets every url through
isAllowedUrl_every(url) ==
  /\ url.t = "str"
  /\ ParsesAsUrl(url.v)
  /\ \A prefix \in URL_ALLOWLIST : StartsWith(url.v, prefix)

isAllowedUrl(url) ==
  /\ url.t = "str"
  /\ ParsesAsUrl(url.v)
  /\ \E prefix \in URL_ALLOWLIST : StartsWith(url.v, prefix)

\* the target test with === undefined for falsiness
MissingTarget_strictUndefined(rev, in) ==
  IF IsPdf(rev) THEN in.url = Undefined /\ in.html = NoHtml
  ELSE in.url = Undefined

\* /pdf: if (!url && !html)      /grab: if (!url)
MissingTarget(rev, in) ==
  IF IsPdf(rev) THEN ~Truthy(in.url) /\ in.html = NoHtml ELSE ~Truthy(in.url)

\* /pdf: if (url && !isAllowedUrl(url))      /grab: if (!isAllowedUrl(url))
UrlRejected(rev, in) ==
  IF IsPdf(rev) THEN Truthy(in.url) /\ ~isAllowedUrl(in.url)
  ELSE ~isAllowedUrl(in.url)

\* Object.keys(hdrs).length, hdrs being extraHeaders plus the ngrok header
HasHeaders(in) ==
  in.extraHeaders # {} \/ (Truthy(in.url) /\ IsNgrok(in.url.v))

\* the selector the readiness waits use
SelectorOf(rev, in) ==
  CASE rev = "pdf" ->
         IF Truthy(in.waitForSelector) THEN in.waitForSelector
         ELSE Str(RESUME_ROOT)
    [] rev = "pdf2" -> normalizeSelector(in.waitForSelector, Str(RESUME_ROOT))
    [] OTHER -> normalizeSelector(in.waitForSelector, Null)

\* res.status(s) ... send: the response ends the request
Respond(q, s, ct) == [q EXCEPT !.pc = "done", !.status = s, !.ctype = ct]

\* catch (e) { res.status(500).json({ error: ... }) }
Catch(q) == Respond(q, 500, "application/json")

\* the handler calls a page-driver operation and awaits it
Invoke(q, op) == [q EXCEPT !.pc = op, !.calls = Append(@, op)]

\* the capture of /grab, and of /pdf with debug set
Capture(q, what) ==
  IF what = "screenshot" THEN Invoke(q, "screenshot") ELSE Invoke(q, "content")

\* the code after a successful navigation, up to its next await
AfterNavigation(rev, q) ==
  LET sel == SelectorOf(rev, q.in)
      q1 == [q EXCEPT !.selector = sel]
  IN IF IsPdf(rev)
     THEN IF q.in.debug \in {"screenshot", "html"}
          THEN Capture(q, q.in.debug)
          ELSE Invoke(q1, "waitForSelector")
     ELSE IF Truthy(sel) THEN Invoke(q1, "waitForSelector")
          ELSE Capture(q1, q.in.mode)

\* From the first line of the handler to its first await: auth, validation and
\* the call of getBrowser().
HandleRequest(r, in) ==
  /\ started
  /\ req[r].pc = "idle"
  /\ LET q == [IdleRequest EXCEPT !.in = in, !.pagesBefore = pagesCreated] IN
       IF Unauthorized(PDF_KEY, in.key)
       THEN /\ req' = [req EXCEPT ![r] = Respond(q, 401, "application/json")]
            /\ UNCHANGED <<browserPromise, launches>>
       ELSE IF MissingTarget(revision, in) \/ UrlRejected(revision, in)
       THEN /\ req' = [req EXCEPT ![r] = Respond(q, 400, "application/json")]
            /\ UNCHANGED <<browserPromise, launches>>
       ELSE LET g == getBrowser(browserPromise, Len(launches)) IN
              /\ browserPromise' = g.browserPromise
              /\ launches' = Launched(g.launches)
              /\ req' = [req EXCEPT ![r] =
                           [q EXCEPT !.pc = "getBrowser",
                                     !.awaited = g.browserPromise]]
  /\ UNCHANGED <<config, started, pagesCreated, openPages>>

\* await getBrowser() resumes: browser.newPage() is called, or the rejection
\* is thrown into the catch block
BrowserSettled(r) ==
  /\ req[r].pc = "getBrowser"
  /\ launches[req[r].awaited] # "pending"
  /\ req' = [req EXCEPT ![r] =
               IF launches[req[r].awaited] = "fulfilled"
               THEN Invoke(@, "newPage") ELSE Catch(@)]
  /\ UNCHANGED <<config, started, browserPromise, launches, pagesCreated,
                 openPages>>

\* await browser.newPage(...) settles; then the headers are computed
NewPageSettled(r, ok) ==
  /\ req[r].pc = "newPage"
  /\ IF ok
     THEN /\ pagesCreated' = pagesCreated + 1
          /\ openPages' = openPages \cup {pagesCreated + 1}
          /\ LET q == [req[r] EXCEPT !.page = pagesCreated + 1] IN
               req' = [req EXCEPT ![r] =
                         IF HasHeaders(q.in)
                         THEN Invoke(q, "setExtraHTTPHeaders")
                         ELSE Invoke(q, "emulateMedia")]
     ELSE /\ req' = [req EXCEPT ![r] = Catch(@)]
          /\ UNCHANGED <<pagesCreated, openPages>>
  /\ UNCHANGED <<config, started, browserPromise, launches>>

\* the request state after an awaited call that is not caught locally
Settled(q, ok, next) == IF ok THEN Invoke(q, next) ELSE Catch(q)

Step(r, q) ==
  /\ req' = [req EXCEPT ![r] = q]
  /\ UNCHANGED <<config, started, browserPromise, launches, pagesCreated,
                 openPages>>

SetExtraHTTPHeadersSettled(r, ok) ==
  /\ req[r].pc = "setExtraHTTPHeaders"
  /\ Step(r, Settled(req[r], ok, "emulateMedia"))

EmulateMediaSettled(r, ok) ==
  /\ req[r].pc = "emulateMedia"
  /\ Step(r, Settled(req[r], ok,
                     IF IsPdf(revision) /\ ~Truthy(req[r].in.url)
                     THEN "setContent" ELSE "goto"))

NavOutcomes == {"rejected", "ok", "http401", "login"}

\* a navigation whose rejection is caught locally: the handler goes on
NavigateSettled_swallow(r, outcome, doc) ==
  /\ req[r].pc \in {"goto", "setContent"}
  /\ req[r].pc = "setContent" => outcome \in {"rejected", "ok"} /\ doc = req[r].in.html
  /\ Step(r, AfterNavigation(revision,
                [req[r] EXCEPT !.nav = outcome, !.doc = doc]))

\* page.goto / page.setContent settles.  goto resolves for every HTTP status
\* and after redirects; outcome tells what the final response was, doc what
\* the page shows.  setContent shows the html of the request.
NavigateSettled(r, outcome, doc) ==
  /\ req[r].pc \in {"goto", "setContent"}
  /\ req[r].pc = "setContent" => outcome \in {"rejected", "ok"} /\ doc = req[r].in.html
  /\ Step(r, IF outcome = "rejected"
             THEN Catch([req[r] EXCEPT !.nav = outcome])
             ELSE AfterNavigation(revision,
                    [req[r] EXCEPT !.nav = outcome, !.doc = doc]))

\* page.waitForSelector(selector, {state: "attached"}): rejects on a selector
\* that is no string, and on timeout when no such element gets attached (the
\* selector parser ignores blanks around the selector)
WaitForSelectorSettled(r, intime) ==
  /\ req[r].pc = "waitForSelector"
  /\ LET q == req[r]
         ok == /\ intime /\ q.selector.t = "str"
               /\ Trim(q.selector.v) \in Attached(q.doc)
     IN Step(r, Settled(q, ok, IF IsPdf(revision) THEN "waitForLoadState(load)"
                              ELSE "waitForLoadState(networkidle)"))

LoadSettled(r, ok) ==
  /\ req[r].pc = "waitForLoadState(load)"
  /\ Step(r, Settled(req[r], ok, "waitForLoadState(networkidle)"))

\* the network-idle wait without its .catch: a timeout is thrown
NetworkIdleSettled_noCatch(r, ok) ==
  /\ req[r].pc = "waitForLoadState(networkidle)"
  /\ Step(r, Settled([req[r] EXCEPT !.netidle = IF ok THEN "idle" ELSE "timeout"],
                     ok, "evaluate(fonts)"))

\* .catch(() => {}): the network went idle, or the wait timed out or failed;
\* either outcome continues
NetworkIdleSettled(r, ok) ==
  /\ req[r].pc = "waitForLoadState(networkidle)"
  /\ Step(r, Invoke([req[r] EXCEPT !.netidle = IF ok THEN "idle" ELSE "timeout"],
                    "evaluate(fonts)"))

FontsSettled(r, ok) ==
  /\ req[r].pc = "evaluate(fonts)"
  /\ Step(r, IF ~ok THEN Catch(req[r])
             ELSE IF IsPdf(revision) THEN Invoke(req[r], "waitForFunction(images)")
             ELSE Capture(req[r], req[r].in.mode))

\* the image wait followed by the settle delay, the height poll left out
ImagesSettled_skipHeight(r, ok) ==
  /\ req[r].pc = "waitForFunction(images)"
  /\ Step(r, Invoke(req[r], "waitForTimeout"))

\* .catch(() => {}): either outcome continues
ImagesSettled(r, ok) ==
  /\ req[r].pc = "waitForFunction(images)"
  /\ Step(r, Invoke(req[r], "waitForFunction(height)"))

\* the element's height exceeds 200 within the timeout
HeightSettled(r, intime) ==
  /\ req[r].pc = "waitForFunction(height)"
  /\ LET q == req[r]
         ok == /\ intime /\ q.selector.t = "str"
               /\ Trim(q.selector.v) \in Attached(q.doc)
     IN Step(r, Settled(q, ok, "waitForTimeout"))

SettleSettled(r, ok) ==
  /\ req[r].pc = "waitForTimeout"
  /\ Step(r, Settled(req[r], ok, "pdf"))

ContentType(op) ==
  CASE op = "pdf" -> "application/pdf"
    [] op = "screenshot" -> "image/png"
    [] OTHER -> "text/html"

\* the debug capture without its return: the readiness waits follow it
CaptureSettled_noReturn(r, ok) ==
  /\ req[r].pc \in {"pdf", "screenshot", "content"}
  /\ Step(r, IF ~ok THEN Catch(req[r])
             ELSE IF req[r].pc = "pdf"
             THEN Invoke([req[r] EXCEPT !.ctype = ContentType(req[r].pc)], "close")
             ELSE Invoke(req[r], "pdf"))

\* page.pdf / page.screenshot / page.content settles; then page.close() is called
CaptureSettled(r, ok) ==
  /\ req[r].pc \in {"pdf", "screenshot", "content"}
  /\ Step(r, IF ok THEN Invoke([req[r] EXCEPT !.ctype = ContentType(req[r].pc)],
                               "close")
             ELSE Catch(req[r]))

\* fileName || "resume.pdf"
FileNameOf(in) == IF Truthy(in.fileName) THEN in.fileName.v ELSE RESUME_PDF

\* the Content-Disposition file name of the response: PDF responses carry one
Disposition(q) ==
  IF q.ctype = "application/pdf" THEN sanitizeFileName(FileNameOf(q.in)) ELSE <<>>

\* a close that closes the oldest open page of the browser
CloseSettled_wrongPage(r, ok) ==
  /\ req[r].pc = "close"
  /\ openPages' = IF ok /\ openPages # {}
                  THEN openPages \ {CHOOSE p \in openPages : \A o \in openPages : p <= o}
                  ELSE openPages
  /\ LET q == req[r] IN
       req' = [req EXCEPT ![r] =
                 IF ok THEN [Respond(q, 200, q.ctype) EXCEPT
                               !.filename = Disposition(q)]
                 ELSE Catch(q)]
  /\ UNCHANGED <<config, started, browserPromise, launches, pagesCreated>>

\* await page.close() settles; then the headers are set and the response is sent
CloseSettled(r, ok) ==
  /\ req[r].pc = "close"
  /\ openPages' = IF ok THEN openPages \ {req[r].page} ELSE openPages
  /\ LET q == req[r] IN
       req' = [req EXCEPT ![r] =
                 IF ok THEN [Respond(q, 200, q.ctype) EXCEPT
                               !.filename = Disposition(q)]
                 ELSE Catch(q)]
  /\ UNCHANGED <<config, started, browserPromise, launches, pagesCreated>>

(* ---------------------------- specifications -------------------------- *)
\* Spec: one client and every request body, for what a single request does.
\* SpecConc (below): MaxRequests clients at once, for what requests share (the
\* browser singleton); requests do not interact otherwise.
SingleClient == {1}

Next ==
  \/ WarmUp
  \/ \E k \in 1..MaxRequests + 1, ok \in BOOLEAN : LaunchSettled(k, ok)
  \/ \E r \in SingleClient, in \in Inputs(revision) : HandleRequest(r, in)
  \/ \E r \in SingleClient : BrowserSettled(r)
  \/ \E r \in SingleClient, ok \in BOOLEAN : NewPageSettled(r, ok)
  \/ \E r \in SingleClient, ok \in BOOLEAN : SetExtraHTTPHeadersSettled(r, ok)
  \/ \E r \in SingleClient, ok \in BOOLEAN : EmulateMediaSettled(r, ok)
  \/ \E r \in SingleClient, outcome \in NavOutcomes, doc \in Docs :
       NavigateSettled(r, outcome, doc)
  \/ \E r \in SingleClient, ok \in BOOLEAN : WaitForSelectorSettled(r, ok)
  \/ \E r \in SingleClient, ok \in BOOLEAN : LoadSettled(r, ok)
  \/ \E r \in SingleClient, ok \in BOOLEAN : NetworkIdleSettled(r, ok)
  \/ \E r \in SingleClient, ok \in BOOLEAN : FontsSettled(r, ok)
  \/ \E r \in SingleClient, ok \in BOOLEAN : ImagesSettled(r, ok)
  \/ \E r \in SingleClient, ok \in BOOLEAN : HeightSettled(r, ok)
  \/ \E r \in SingleClient, ok \in BOOLEAN : SettleSettled(r, ok)
  \/ \E r \in SingleClient, ok \in BOOLEAN : CaptureSettled(r, ok)
  \/ \E r \in SingleClient, ok \in BOOLEAN : CloseSettled(r, ok)

Spec == Init /\ [][Next]_vars

\* What the scheduling guarantees: the launch and every page call that carries a
\* timeout (its own or the driver's default) settle, and so do the calls that
\* only send a command to the browser.  The fonts evaluate awaits a promise of
\* the page (document.fonts.ready) under no timeout: nothing makes it settle.
Fairness ==
  /\ WF_vars(WarmUp)
  /\ WF_vars(\E k \in 1..MaxRequests + 1, ok \in BOOLEAN : LaunchSettled(k, ok))
  /\ WF_vars(\E r \in SingleClient : BrowserSettled(r))
  /\ WF_vars(\E r \in SingleClient, ok \in BOOLEAN : NewPageSettled(r, ok))
  /\ WF_vars(\E r \in SingleClient, ok \in BOOLEAN :
               SetExtraHTTPHeadersSettled(r, ok))
  /\ WF_vars(\E r \in SingleClient, ok \in BOOLEAN : EmulateMediaSettled(r, ok))
  /\ WF_vars(\E r \in SingleClient, outcome \in NavOutcomes, doc \in Docs :
               NavigateSettled(r, outcome, doc))
  /\ WF_vars(\E r \in SingleClient, ok \in BOOLEAN : WaitForSelectorSettled(r, ok))
  /\ WF_vars(\E r \in SingleClient, ok \in BOOLEAN : LoadSettled(r, ok))
  /\ WF_vars(\E r \in SingleClient, ok \in BOOLEAN : NetworkIdleSettled(r, ok))
  /\ WF_vars(\E r \in SingleClient, ok \in BOOLEAN : ImagesSettled(r, ok))
  /\ WF_vars(\E r \in SingleClient, ok \in BOOLEAN : HeightSettled(r, ok))
  /\ WF_vars(\E r \in SingleClient, ok \in BOOLEAN : SettleSettled(r, ok))
  /\ WF_vars(\E r \in SingleClient, ok \in BOOLEAN : CaptureSettled(r, ok))
  /\ WF_vars(\E r \in SingleClient, ok \in BOOLEAN : CloseSettled(r, ok))

FairSpec == Spec /\ Fairness

\* concurrent clients, each sending authorized requests for an allowed URL
ConcInputs ==
  {[NoInput EXCEPT !.key = Str(SECRET), !.url = Str(URL_A_CV),
                   !.waitForSelector = Str(SEL_CV)],
   [NoInput EXCEPT !.key = Str(SECRET), !.url = Str(URL_A_NGROK)]}

NextConc ==
  \/ WarmUp
  \/ \E k \in 1..MaxRequests + 1, ok \in BOOLEAN : LaunchSettled(k, ok)
  \/ \E r \in Requests, in \in ConcInputs : HandleRequest(r, in)
  \/ \E r \in Requests : BrowserSettled(r)
  \/ \E r \in Requests, ok \in BOOLEAN : NewPageSettled(r, ok)
  \/ \E r \in Requests, ok \in BOOLEAN : SetExtraHTTPHeadersSettled(r, ok)
  \/ \E r \in Requests, ok \in BOOLEAN : EmulateMediaSettled(r, ok)
  \/ \E r \in Requests, outcome \in {"rejected", "ok"} :
       NavigateSettled(r, outcome, DOC_CV)
  \/ \E r \in Requests, ok \in BOOLEAN : WaitForSelectorSettled(r, ok)
  \/ \E r \in Requests, ok \in BOOLEAN : LoadSettled(r, ok)
  \/ \E r \in Requests, ok \in BOOLEAN : NetworkIdleSettled(r, ok)
  \/ \E r \in Requests, ok \in BOOLEAN : FontsSettled(r, ok)
  \/ \E r \in Requests, ok \in BOOLEAN : ImagesSettled(r, ok)
  \/ \E r \in Requests, ok \in BOOLEAN : HeightSettled(r, ok)
  \/ \E r \in Requests, ok \in BOOLEAN : SettleSettled(r, ok)
  \/ \E r \in Requests, ok \in BOOLEAN : CaptureSettled(r, ok)
  \/ \E r \in Requests, ok \in BOOLEAN : CloseSettled(r, ok)

SpecConc == Init /\ [][NextConc]_vars

\* one client whose requests are authorized and differ from a valid request in
\* one field: the URL, the selector or the file name; the browser and the page
\* do what they are asked
ValidInput ==
  [NoInput EXCEPT !.key = Str(SECRET), !.url = Str(URL_A_CV),
                  !.waitForSelector = Str(SEL_CV), !.extraHeaders = {"x-test"}]
ValueInputs ==
  {[ValidInput EXCEPT !.url = Str(u)] :
     u \in {URL_A_CV, URL_B, URL_MALFORMED, URL_A_EVIL, URL_A_PORT, URL_A_HTTPS}}
    \cup {[ValidInput EXCEPT !.waitForSelector = w] : w \in SelectorShapes}
    \cup {[ValidInput EXCEPT !.fileName = Str(n)] : n \in FileNames}

NextValues ==
  \/ WarmUp
  \/ \E k \in 1..MaxRequests + 1 : LaunchSettled(k, TRUE)
  \/ \E r \in SingleClient, in \in ValueInputs : HandleRequest(r, in)
  \/ \E r \in SingleClient : BrowserSettled(r)
  \/ \E r \in SingleClient : NewPageSettled(r, TRUE)
  \/ \E r \in SingleClient : SetExtraHTTPHeadersSettled(r, TRUE)
  \/ \E r \in SingleClient : EmulateMediaSettled(r, TRUE)
  \/ \E r \in SingleClient : NavigateSettled(r, "ok", DOC_CV)
  \/ \E r \in SingleClient : WaitForSelectorSettled(r, TRUE)
  \/ \E r \in SingleClient : LoadSettled(r, TRUE)
  \/ \E r \in SingleClient : NetworkIdleSettled(r, TRUE)
  \/ \E r \in SingleClient : FontsSettled(r, TRUE)
  \/ \E r \in SingleClient : ImagesSettled(r, TRUE)
  \/ \E r \in SingleClient : HeightSettled(r, TRUE)
  \/ \E r \in SingleClient : SettleSettled(r, TRUE)
  \/ \E r \in SingleClient : CaptureSettled(r, TRUE)
  \/ \E r \in SingleClient : CloseSettled(r, TRUE)

SpecValues == Init /\ [][NextValues]_vars

(* ------------------------------- claims ------------------------------- *)
Handled(q) == q.pc # "idle"
Done(q) == q.pc = "done"
Count(calls, op) == Cardinality({i \in DOMAIN calls : calls[i] = op})
Called(q, op) == \E i \in DOMAIN q.calls : q.calls[i] = op
LastCall(q) == IF q.calls = <<>> THEN "none" ELSE q.calls[Len(q.calls)]
NavigationCalls == {"goto", "setContent"}
CaptureCalls == {"pdf", "screenshot", "content"}
Captured(q) == \E op \in CaptureCalls : Called(q, op)
\* the request carries the configured, non-empty secret
Authenticated(q) == PDF_KEY # <<>> /\ q.in.key = Str(PDF_KEY)
\* the body names no target: no url, and for /pdf no html either
NoTarget(q) == ~Truthy(q.in.url) /\ (IsPdf(revision) => q.in.html = NoHtml)
NoPageFor(q) == q.calls = <<>> /\ q.page = 0 /\ q.awaited = 0

\* C1: every request that allocated a page has closed it exactly once when its
\* response is sent, whatever step failed.
C1_PageClosedExactlyOnce ==
  \A r \in Requests :
    (Done(req[r]) /\ req[r].page # 0) =>
      Count(req[r].calls, "close") = 1

C3_InlineHtmlSkipsSelectorChecks ==
  \A r \in Requests :
    (IsPdf(revision) /\ Authenticated(req[r]) /\ req[r].in.html # NoHtml
       /\ ~Truthy(req[r].in.url) /\ req[r].in.waitForSelector = Undefined)
      => (~Called(req[r], "waitForSelector")
          /\ ~Called(req[r], "waitForFunction(height)"))

\* C4 as stated: every request whose body has neither url nor html is answered
\* 400 and creates no page.
C4_MissingTargetGets400 ==
  \A r \in Requests :
    (Handled(req[r]) /\ NoTarget(req[r]))
      => (Done(req[r]) /\ req[r].status = 400 /\ NoPageFor(req[r])
          /\ pagesCreated = req[r].pagesBefore)

\* C4 amended: every request whose body has neither url nor html creates no
\* page, and it is answered 400 when it is authenticated (401 otherwise).
C4_AuthenticatedMissingTargetGets400 ==
  \A r \in Requests :
    (Handled(req[r]) /\ NoTarget(req[r]))
      => /\ Done(req[r]) /\ NoPageFor(req[r])
         /\ pagesCreated = req[r].pagesBefore
         /\ req[r].status = IF Authenticated(req[r]) THEN 400 ELSE 401

C4_Witness ==
  \E r \in Requests :
    Authenticated(req[r]) /\ NoTarget(req[r]) /\ req[r].status = 400

\* the url is one isAllowedUrl turns down
Rejected(url) == URL_ALLOWLIST = {} \/ ~isAllowedUrl(url)

\* C5 as stated: every request whose url isAllowedUrl rejects is answered 400
\* and allocates no page.
C5_RejectedUrlGets400 ==
  \A r \in Requests :
    (Handled(req[r]) /\ req[r].in.url # Undefined /\ Rejected(req[r].in.url))
      => (Done(req[r]) /\ req[r].status = 400 /\ NoPageFor(req[r])
          /\ pagesCreated = req[r].pagesBefore)

\* C5 amended: every request whose non-empty url isAllowedUrl rejects (every
\* non-empty url when the allowlist is empty) allocates no page, and it is
\* answered 400 when it is authenticated (401 otherwise).
C5_AuthenticatedRejectedUrlGets400 ==
  \A r \in Requests :
    (Handled(req[r]) /\ Truthy(req[r].in.url) /\ Rejected(req[r].in.url))
      => /\ Done(req[r]) /\ NoPageFor(req[r])
         /\ pagesCreated = req[r].pagesBefore
         /\ req[r].status = IF Authenticated(req[r]) THEN 400 ELSE 401

C5_Witness ==
  \E r \in Requests :
    /\ Authenticated(req[r]) /\ URL_ALLOWLIST # {}
    /\ req[r].in.url = Str(URL_B) /\ req[r].status = 400

\* C6: a request whose x-pdf-key is absent or differs from the secret, and every
\* request when the secret is empty, is answered 401 before validation and
\* before getBrowser or any page call.
C6_UnauthorizedGets401First ==
  \A r \in Requests :
    (Handled(req[r]) /\ (PDF_KEY = <<>> \/ req[r].in.key # Str(PDF_KEY)))
      => (Done(req[r]) /\ req[r].status = 401 /\ NoPageFor(req[r]))

C6_Witness ==
  \E r \in Requests :
    /\ PDF_KEY # <<>> /\ req[r].in.key = Str(<<"x">>)
    /\ NoTarget(req[r]) /\ req[r].status = 401

\* C7: the status tells the failing stage: 502 for a navigation that rejects,
\* 500 for a capture that rejects, 400 for validation, 401 for auth.
C7_StatusByStage ==
  \A r \in Requests :
    Done(req[r]) =>
      /\ LastCall(req[r]) \in NavigationCalls => req[r].status = 502
      /\ LastCall(req[r]) \in CaptureCalls => req[r].status = 500
      /\ ~Authenticated(req[r]) => req[r].status = 401
      /\ (Authenticated(req[r]) /\ NoTarget(req[r])) => req[r].status = 400

\* C8: after a navigation that ends on HTTP 401 or on a /login path, no capture
\* is invoked and the request ends in an error.
C8_AuthRedirectNeverCaptured ==
  \A r \in Requests :
    req[r].nav \in {"http401", "login"}
      => (~Captured(req[r]) /\ (Done(req[r]) => req[r].status >= 400))

\* C9: chromium.launch is invoked at most once, and every caller of getBrowser
\* (the warm-up, every request) awaits that one launch.
C9_SingleLaunch ==
  /\ Len(launches) <= 1
  /\ started => browserPromise = 1
  /\ \A r \in Requests : req[r].awaited # 0 => req[r].awaited = browserPromise

C9_Witness ==
  \E r1, r2 \in Requests :
    /\ r1 # r2
    /\ req[r1].pc = "getBrowser" /\ req[r2].pc = "getBrowser"
    /\ launches[browserPromise] = "pending"

\* C10: once the launch has rejected, the memo keeps the rejected promise, no
\* second launch happens, and every authenticated request for an allowed url
\* ends in a 500 without any page call.
C10_RejectedLaunchIsNeverRetried ==
  (Len(launches) >= 1 /\ launches[1] = "rejected") =>
    /\ browserPromise = 1
    /\ Len(launches) = 1
    /\ \A r \in Requests :
         (Handled(req[r]) /\ Authenticated(req[r])
            /\ isAllowedUrl(req[r].in.url))
           => /\ req[r].pc \in {"getBrowser", "done"}
              /\ req[r].awaited = 1
              /\ req[r].calls = <<>> /\ req[r].page = 0
              /\ Done(req[r]) => req[r].status = 500

C10_Witness ==
  /\ Len(launches) = 1 /\ launches[1] = "rejected"
  /\ \E r1, r2 \in Requests :
       /\ r1 # r2
       /\ req[r1].status = 500 /\ req[r1].awaited = 1
       /\ req[r2].status = 500 /\ req[r2].awaited = 1

\* the readiness steps and calls that come after the network-idle wait
AfterNetworkIdle ==
  {"evaluate(fonts)", "waitForFunction(images)", "waitForFunction(height)",
   "waitForTimeout", "pdf", "screenshot", "content", "close"}

\* C11: a network-idle wait that times out is swallowed: the next readiness step
\* (the fonts evaluate) is invoked, a request that ends in an error after it
\* failed in a later call, and the wait never holds the request forever.
C11_NetworkIdleNeverBlocks ==
  /\ [](\A r \in Requests :
          req[r].netidle = "timeout" =>
            /\ Called(req[r], "evaluate(fonts)")
            /\ (Done(req[r]) /\ req[r].status # 200)
                 => LastCall(req[r]) \in AfterNetworkIdle)
  /\ \A r \in Requests :
       (req[r].pc = "waitForLoadState(networkidle)")
         ~> Called(req[r], "evaluate(fonts)")

C11_Witness ==
  \E r \in Requests :
    /\ req[r].netidle = "timeout"
    /\ Done(req[r]) /\ req[r].status = 200 /\ Called(req[r], "pdf")

\* position of the first "/" of s at or after i, Len(s) + 1 when there is none
RECURSIVE SlashAt(_, _)
SlashAt(s, i) ==
  IF i > Len(s) THEN Len(s) + 1 ELSE IF s[i] = "/" THEN i ELSE SlashAt(s, i + 1)

PORT_80 == <<":", "8", "0">>
PORT_443 == <<":", "4", "4", "3">>

\* the origin of a URL: scheme, host and port, the scheme's default port left out
OriginOf(s) ==
  LET c == ColonAt(s, 1)
      o == SubSeq(s, 1, SlashAt(s, c + 3) - 1)
      scheme == SubSeq(s, 1, c - 1)
  IN IF scheme = HTTP /\ EndsWith(o, PORT_80) THEN SubSeq(o, 1, Len(o) - 3)
     ELSE IF scheme = HTTPS /\ EndsWith(o, PORT_443) THEN SubSeq(o, 1, Len(o) - 4)
     ELSE o

OriginAllowed(url) ==
  /\ ParsesAsUrl(url)
  /\ \E entry \in URL_ALLOWLIST : OriginOf(url) = OriginOf(entry)

\* C12: isAllowedUrl accepts a url if and only if it parses and its origin
\* equals the origin of an allowlist entry: an authenticated request with a url
\* is answered 400 exactly when no entry has the url's origin.
C12_AllowedIffOriginMatches ==
  \A r \in Requests :
    LET q == req[r] IN
      (Handled(q) /\ Authenticated(q) /\ Truthy(q.in.url))
        => ((Done(q) /\ q.status = 400) <=> ~OriginAllowed(q.in.url.v))

\* C13: the file name of every PDF success response ends in ".pdf" whatever its
\* case, is at most 128 characters long and has only characters of
\* [A-Za-z0-9._-].
C13_FileNameIsSafe ==
  \A r \in Requests :
    LET q == req[r] IN
      (Done(q) /\ q.status = 200 /\ q.ctype = "application/pdf")
        => /\ EndsWith(ToLowerCase(q.filename), DOT_PDF)
           /\ Len(q.filename) <= 128
           /\ \A i \in DOMAIN q.filename : q.filename[i] \in NameChars

Fallbacks == {Str(RESUME_ROOT), Null}

\* C14: normalizeSelector is idempotent; a string, the first non-blank string
\* of an array and an object's selector or value field come back trimmed; an
\* absent, blank, [] or {} input gives the fallback; and every selector POST /pdf
\* passes to page.waitForSelector is the result of this normalisation.
C14_SelectorsAreNormalised ==
  /\ \A v \in SelectorShapes, fb \in Fallbacks :
       normalizeSelector(normalizeSelector(v, fb), fb) = normalizeSelector(v, fb)
  /\ \A fb \in Fallbacks :
       /\ normalizeSelector(Str(SEL_CV_PADDED), fb) = Str(SEL_CV)
       /\ normalizeSelector(Arr(<<Str(BLANK), Str(SEL_CV_PADDED)>>), fb) = Str(SEL_CV)
       /\ normalizeSelector(Obj(Str(SEL_CV_PADDED), Undefined), fb) = Str(SEL_CV)
       /\ normalizeSelector(Obj(Undefined, Str(SEL_CV_PADDED)), fb) = Str(SEL_CV)
       /\ \A v \in {Undefined, Null, Str(<<>>), Str(BLANK), Arr(<<>>),
                     Obj(Undefined, Undefined)} :
            normalizeSelector(v, fb) = fb
  /\ \A r \in Requests :
       (IsPdf(revision) /\ Called(req[r], "waitForSelector"))
         => req[r].selector =
              normalizeSelector(req[r].in.waitForSelector, Str(RESUME_ROOT))

\* the capture operations a request has invoked so far
Captures(q) == {i \in DOMAIN q.calls : q.calls[i] \in CaptureCalls}

\* C15: a request invokes at most one capture operation (page.pdf,
\* page.screenshot, page.content), and exactly one when it ends in a success
\* response; a /pdf request with debug set captures right after the navigation
\* call and never renders a PDF.
C15_AtMostOneCapture ==
  \A r \in Requests :
    LET q == req[r] IN
      /\ Cardinality(Captures(q)) <= 1
      /\ (Done(q) /\ q.status = 200) => Cardinality(Captures(q)) = 1
      /\ (IsPdf(revision) /\ q.in.debug \in {"screenshot", "html"})
           => /\ ~Called(q, "pdf")
              /\ \A i \in DOMAIN q.calls :
                   /\ q.calls[i] \in CaptureCalls
                        => i > 1 /\ q.calls[i - 1] \in NavigationCalls
                   /\ (q.calls[i] \in NavigationCalls /\ i < Len(q.calls))
                        => q.calls[i + 1] =
                             (IF q.in.debug = "screenshot" THEN "screenshot"
                              ELSE "content")

C15_Witness ==
  \E r \in Requests :
    /\ IsPdf(revision) /\ req[r].in.debug = "screenshot"
    /\ Done(req[r]) /\ req[r].status = 200 /\ req[r].ctype = "image/png"
    /\ Cardinality(Captures(req[r])) = 1

\* C16: the fonts check is best-effort: a fonts evaluation that rejects is
\* swallowed, so no request ends with the fonts evaluation as its last call:
\* the image check or the capture follows it.
C16_FontsFailureIsSwallowed ==
  \A r \in Requests :
    Done(req[r]) => LastCall(req[r]) # "evaluate(fonts)"

\* C17: every request that passed auth and validation eventually gets its
\* response, every awaited call that carries a timeout settling.
C17_EveryValidRequestIsAnswered ==
  \A r \in Requests : (req[r].pc = "getBrowser") ~> Done(req[r])

\* the page operations of POST /pdf after the navigation, in order
PdfOrder ==
  <<"waitForSelector", "waitForLoadState(load)", "waitForLoadState(networkidle)",
    "evaluate(fonts)", "waitForFunction(images)", "waitForFunction(height)",
    "waitForTimeout", "pdf">>
PdfSteps == {PdfOrder[i] : i \in DOMAIN PdfOrder}
IsPrefix(a, b) == Len(a) <= Len(b) /\ a = SubSeq(b, 1, Len(a))
\* the navigation, readiness and render calls of a request, in call order
PipelineCalls(q) ==
  SelectSeq(q.calls, LAMBDA c : c \in NavigationCalls \cup PdfSteps)

\* C18: in POST /pdf without debug the page operations occur in the order
\* navigate, wait-for-selector, load, network-idle, fonts, images, height,
\* settle delay, page.pdf, each at most once and none skipped; a call starts
\* only when the previous one has settled.
C18_PdfPipelineOrder ==
  \A r \in Requests :
    LET q == req[r] IN
      (IsPdf(revision) /\ q.in.debug = "undefined" /\ Handled(q))
        => /\ PipelineCalls(q) # <<>> =>
                /\ Head(PipelineCalls(q)) \in NavigationCalls
                /\ IsPrefix(Tail(PipelineCalls(q)), PdfOrder)
           /\ q.pc \notin {"getBrowser", "done"} => q.pc = LastCall(q)
           /\ Called(q, "pdf") => Len(PipelineCalls(q)) = Len(PdfOrder) + 1

C18_Witness ==
  \E r \in Requests :
    /\ IsPdf(revision) /\ req[r].in.debug = "undefined"
    /\ Done(req[r]) /\ req[r].status = 200 /\ Called(req[r], "pdf")

\* C19: a navigation that rejects aborts the request at once: the navigation
\* is its last page call, nothing is captured, and it ends in an error response.
C19_RejectedNavigationAborts ==
  \A r \in Requests :
    LET q == req[r] IN
      q.nav = "rejected"
        => /\ Done(q) /\ q.status >= 400 /\ q.ctype = "application/json"
           /\ LastCall(q) \in NavigationCalls
           /\ ~Captured(q)

C19_Witness ==
  \E r \in Requests :
    /\ req[r].nav = "rejected" /\ Done(req[r]) /\ LastCall(req[r]) = "goto"

\* C20: under every interleaving of concurrent requests each request has
\* created at most one page, no two requests share a page, a page stays open
\* until the request that created it has closed it, and the shared browser is
\* never replaced once it has been launched.
C20_PagesAreIsolated ==
  /\ \A r \in Requests :
       LET q == req[r] IN
         /\ Count(q.calls, "newPage") <= 1
         /\ Count(q.calls, "close") <= 1
         /\ q.page # 0 => q.page \in (q.pagesBefore + 1)..pagesCreated
         /\ (q.page # 0 /\ ~(Done(q) /\ q.status = 200 /\ Called(q, "close")))
              => q.page \in openPages
  /\ \A r1, r2 \in Requests :
       (r1 # r2 /\ req[r1].page # 0) => req[r1].page # req[r2].page
  /\ started => browserPromise = 1 /\ Len(launches) = 1

C20_Witness ==
  \E r1, r2 \in Requests :
    /\ r1 # r2
    /\ req[r1].page # 0 /\ req[r1].pc = "close"
    /\ req[r2].page # 0 /\ Done(req[r2]) /\ req[r2].status = 200

====
